---- MODULE Spec2Model ----
(***************************************************************************)
(* Model of src/client.rs: the multipart/form-data request builder.        *)
(* A Multipart collects (name, field) pairs; send() checks the method,     *)
(* sets the Content-Type header, starts the request and streams the body   *)
(* part by part, stopping at the first I/O error.                          *)
(*                                                                         *)
(* Bytes are one-character strings; every string of the program is a       *)
(* sequence of bytes.                                                      *)
(***************************************************************************)
EXTENDS Integers, Sequences, FiniteSets, TLC

\* ------------------------------------------------------------------ bounds
MaxFields == 2
MaxChunk == 2

\* --------------------------------------------------------------- constants
BOUNDARY_LEN == 8

CRLF == <<"\r","\n">>
DASHES == <<"-","-">>
QUOTE == <<"\"">>
DISPOSITION_PREFIX == <<"C","o","n","t","e","n","t","-","D","i","s","p","o","s","i","t","i","o","n",":"," ","f","o","r","m","-","d","a","t","a",";"," ","n","a","m","e","=","\"">>
DISPOSITION_SUFFIX == <<"\"","\r","\n","\r","\n">>
FILENAME_PREFIX == <<";"," ","f","i","l","e","n","a","m","e","=","\"">>
FILENAME_SUFFIX == <<"\"","\r","\n">>
CTYPE_PREFIX == <<"C","o","n","t","e","n","t","-","T","y","p","e",":"," ">>
CTYPE_SUFFIX == <<"\r","\n","\r","\n">>

\* ----------------------------------------------------------------- options
None == [some |-> FALSE, val |-> <<>>]
Some(v) == [some |-> TRUE, val |-> v]

\* -------------------------------------------------------------- byte tools
RECURSIVE Cat(_, _)
\* the concatenation of the first k pieces of ps
Cat(ps, k) == IF k = 0 THEN <<>> ELSE Cat(ps, k - 1) \o ps[k]

Flat(ps) == Cat(ps, Len(ps))

\* the len bytes of s that follow offset at
Slice(s, at, len) == SubSeq(s, at + 1, at + len)

\* ------------------------------------------------------------------- mimes
Mime(top, sub, params) == [top |-> top, sub |-> sub, params |-> params]

NoMime == Mime(<<>>, <<>>, <<>>)

RECURSIVE MimeParamsFmt(_, _)
MimeParamsFmt(params, k) ==
    IF k = 0 THEN <<>>
    ELSE MimeParamsFmt(params, k - 1)
           \o <<";"," ">> \o params[k][1] \o <<"=">> \o params[k][2]

\* Display of a Mime, as used by "{}" in write!
MimeFmt(m) == m.top \o <<"/">> \o m.sub \o MimeParamsFmt(m.params, Len(m.params))

\* variant: the boundary parameter written as a quoted string
multipart_mime_quoted(bound) ==
    Mime(<<"m","u","l","t","i","p","a","r","t">>,
         <<"f","o","r","m","-","d","a","t","a">>,
         << << <<"b","o","u","n","d","a","r","y">>, QUOTE \o bound \o QUOTE >> >>)

multipart_mime(bound) ==
    Mime(<<"m","u","l","t","i","p","a","r","t">>,
         <<"f","o","r","m","-","d","a","t","a">>,
         << << <<"b","o","u","n","d","a","r","y">>, bound >> >>)

\* ---------------------------------------------------------------- boundary
UPPER == <<"A","B","C","D","E","F","G","H","I","J","K","L","M","N","O","P","Q","R","S","T","U","V","W","X","Y","Z">>
LOWER == <<"a","b","c","d","e","f","g","h","i","j","k","l","m","n","o","p","q","r","s","t","u","v","w","x","y","z">>
DIGITS == <<"0","1","2","3","4","5","6","7","8","9">>

to_lowercase(c) ==
    IF \E i \in 1..Len(UPPER) : UPPER[i] = c
    THEN LOWER[CHOOSE i \in 1..Len(UPPER) : UPPER[i] = c]
    ELSE c

\* what gen_ascii_chars of the task rng yields: letters and digits; the
\* streams send is checked with (RandSpec below takes every stream)
RandStreams ==
    { <<"a","B","3","d","E","6","g","H","9","j">>,
      <<"Z","Z","Z","Z","Z","Z","Z","Z","Z","Z">> }

\* variant: the characters are taken as the generator yields them
random_alphanumeric_raw(stream, len) ==
    [i \in 1..len |-> stream[i]]

random_alphanumeric(stream, len) ==
    [i \in 1..len |-> to_lowercase(stream[i])]

\* ------------------------------------------------------------------ inputs
Names == { <<"a">>, <<"f","1">> }
\* the last value is the delimiter a boundary of z's makes
TextVals == { <<>>, <<"v","1">>, <<"-","-","z","z","z","z","z","z","z","z">> }

Path(comps, utf8) == [comps |-> comps, utf8 |-> utf8]

\* open files the caller may pass: path, content and current read position
Files ==
    { [path |-> Path(<< <<"d">>, <<"a",".","t","x","t">> >>, TRUE),
       data |-> <<"h","i","!">>, pos |-> 0],
      [path |-> Path(<< <<"b">> >>, TRUE),
       data |-> <<>>, pos |-> 0],
      [path |-> Path(<< <<"x",".","t","x","t">> >>, FALSE),
       data |-> <<"p","q">>, pos |-> 1] }

Methods == {"Post", "Get"}
IoErrors == {"BrokenPipe", "TimedOut"}

\* Path::filename_str: the last component, if there is one and it is UTF-8
filename_str(path) ==
    IF Len(path.comps) = 0 THEN None
    ELSE LET last == path.comps[Len(path.comps)] IN
         IF last = <<".">> \/ last = <<".",".">> \/ ~path.utf8 THEN None
         ELSE Some(last)

RECURSIVE LastDot(_, _)
\* index of the last "." among the first k bytes of s, 0 if none
LastDot(s, k) ==
    IF k = 0 THEN 0 ELSE IF s[k] = "." THEN k ELSE LastDot(s, k - 1)

\* guess_mime_type: by extension, application/octet-stream when unknown
guess_mime_type(path) ==
    LET last == IF Len(path.comps) = 0 THEN <<>> ELSE path.comps[Len(path.comps)]
        d == LastDot(last, Len(last))
        ext == IF d = 0 THEN <<>> ELSE SubSeq(last, d + 1, Len(last))
    IN IF ext = <<"t","x","t">>
       THEN Mime(<<"t","e","x","t">>, <<"p","l","a","i","n">>, <<>>)
       ELSE Mime(<<"a","p","p","l","i","c","a","t","i","o","n">>,
                 <<"o","c","t","e","t","-","s","t","r","e","a","m">>, <<>>)

\* ------------------------------------------------------------------ fields
MultipartFile_from_file(filename, file, content_type) ==
    [filename |-> filename,
     content_type |-> content_type,
     reader |-> [data |-> file.data, pos |-> file.pos]]

NoFile == [filename |-> None, content_type |-> NoMime,
           reader |-> [data |-> <<>>, pos |-> 0]]

TextField(name, val) ==
    [name |-> name, kind |-> "Text", text |-> val, file |-> NoFile]

FileField(name, mfile) ==
    [name |-> name, kind |-> "File", text |-> <<>>, file |-> mfile]

\* ------------------------------------------------------- formatted writes
\* the pieces write! hands to the stream, one write per piece
BoundaryPieces(b) == << DASHES, b, CRLF >>

\* variant: the header line ends with one CRLF, the blank line left to the part
DispositionPieces_oneCRLF(name) ==
    << DISPOSITION_PREFIX, name, <<"\"","\r","\n">> >>

DispositionPieces(name) == << DISPOSITION_PREFIX, name, DISPOSITION_SUFFIX >>

FilenamePieces(filename) == << FILENAME_PREFIX, filename, FILENAME_SUFFIX >>

ContentTypePieces(content_type) ==
    << CTYPE_PREFIX, MimeFmt(content_type), CTYPE_SUFFIX >>

\* ------------------------------------------------------------------- state
VARIABLES
    rnd,        \* what the random source yielded to Multipart::new
    fields,     \* Multipart.fields
    boundary,   \* Multipart.boundary
    method,     \* req.method()
    reqState,   \* "Fresh", "Streaming", "Sent" or "Failed"
    headers,    \* the request's Content-Type header, if set
    out,        \* the bytes the stream has accepted
    pc,         \* position in the caller / send / write_request
    idx,        \* the field the for loop is at
    reader,     \* the reader of the file part being copied
    wrRes,      \* what write_request returned
    result,     \* what send returned
    wlog,       \* history: every write to the stream, and failed reads
    hlog,       \* history: every headers.set, with the request state then
    finalized,  \* history: the number of req.send() calls
    calls       \* history: the add_text / add_file calls, in call order

vars == << rnd, fields, boundary, method, reqState, headers, out, pc, idx,
           reader, wrRes, result, wlog, hlog, finalized, calls >>

NoReader == [data |-> <<>>, pos |-> 0]
NoHandle == [path |-> Path(<<>>, TRUE), data |-> <<>>, pos |-> 0]

WrNone == [tag |-> "None", io |-> ""]
IoOk == [tag |-> "Ok", io |-> ""]
IoErr(e) == [tag |-> "Err", io |-> e]

ResNone == [tag |-> "None", kind |-> "", io |-> ""]
HttpOk == [tag |-> "Ok", kind |-> "", io |-> ""]
HttpErr(kind, e) == [tag |-> "Err", kind |-> kind, io |-> e]
Panic == [tag |-> "Panic", kind |-> "", io |-> ""]

\* variant: the error of write_request is dropped
io_to_http_ok(res) == HttpOk

io_to_http(res) ==
    IF res.tag = "Err" THEN HttpErr("HttpIoError", res.io) ELSE HttpOk

\* Multipart::new, and a fresh request handed in by the caller
Init ==
    /\ rnd \in RandStreams
    /\ fields = <<>>
    /\ boundary = random_alphanumeric(rnd, BOUNDARY_LEN)
    /\ method \in Methods
    /\ reqState = "Fresh"
    /\ headers = [set |-> FALSE, mime |-> NoMime]
    /\ out = <<>>
    /\ pc = "build"
    /\ idx = 1
    /\ reader = NoReader
    /\ wrRes = WrNone
    /\ result = ResNone
    /\ wlog = <<>>
    /\ hlog = <<>>
    /\ finalized = 0
    /\ calls = <<>>

\* ------------------------------------------------------------ the collector
\* variant: the field is put in front of the ones already there
add_text_front ==
    /\ pc = "build"
    /\ Len(fields) < MaxFields
    /\ \E name \in Names, val \in TextVals :
          /\ fields' = << TextField(name, val) >> \o fields
          /\ calls' = Append(calls, [op |-> "add_text", name |-> name,
                                     val |-> val, file |-> NoHandle])
    /\ UNCHANGED << rnd, boundary, method, reqState, headers, out, pc, idx,
                    reader, wrRes, result, wlog, hlog, finalized >>

add_text ==
    /\ pc = "build"
    /\ Len(fields) < MaxFields
    /\ \E name \in Names, val \in TextVals :
          /\ fields' = Append(fields, TextField(name, val))
          /\ calls' = Append(calls, [op |-> "add_text", name |-> name,
                                     val |-> val, file |-> NoHandle])
    /\ UNCHANGED << rnd, boundary, method, reqState, headers, out, pc, idx,
                    reader, wrRes, result, wlog, hlog, finalized >>

\* variant: add_file reads the first byte of the file to look at it
add_file_sniffing ==
    /\ pc = "build"
    /\ Len(fields) < MaxFields
    /\ \E name \in Names, file \in Files :
          LET filename == filename_str(file.path)
              content_type == guess_mime_type(file.path)
              read == [file EXCEPT !.pos = IF @ < Len(file.data) THEN @ + 1 ELSE @]
          IN /\ fields' = Append(fields,
                    FileField(name, MultipartFile_from_file(filename, read, content_type)))
             /\ calls' = Append(calls, [op |-> "add_file", name |-> name,
                                        val |-> <<>>, file |-> file])
    /\ UNCHANGED << rnd, boundary, method, reqState, headers, out, pc, idx,
                    reader, wrRes, result, wlog, hlog, finalized >>

\* variant: a field of the same name is replaced, as in a map
add_file_replacing ==
    /\ pc = "build"
    /\ Len(fields) < MaxFields
    /\ \E name \in Names, file \in Files :
          LET filename == filename_str(file.path)
              content_type == guess_mime_type(file.path)
              new == FileField(name, MultipartFile_from_file(filename, file, content_type))
              same == { i \in 1..Len(fields) : fields[i].name = name }
          IN /\ fields' = IF same = {} THEN Append(fields, new)
                          ELSE [fields EXCEPT ![CHOOSE i \in same : TRUE] = new]
             /\ calls' = Append(calls, [op |-> "add_file", name |-> name,
                                        val |-> <<>>, file |-> file])
    /\ UNCHANGED << rnd, boundary, method, reqState, headers, out, pc, idx,
                    reader, wrRes, result, wlog, hlog, finalized >>

add_file ==
    /\ pc = "build"
    /\ Len(fields) < MaxFields
    /\ \E name \in Names, file \in Files :
          LET filename == filename_str(file.path)
              content_type == guess_mime_type(file.path)
          IN /\ fields' = Append(fields,
                    FileField(name, MultipartFile_from_file(filename, file, content_type)))
             /\ calls' = Append(calls, [op |-> "add_file", name |-> name,
                                        val |-> <<>>, file |-> file])
    /\ UNCHANGED << rnd, boundary, method, reqState, headers, out, pc, idx,
                    reader, wrRes, result, wlog, hlog, finalized >>

\* The field borrows the caller's File; what the file holds is not the
\* collection's. Between add_file and send the file may grow: here a byte
\* is appended, once, to a file that was empty when it was added.
file_appended ==
    /\ pc = "build"
    /\ \E i \in 1..Len(fields) :
          /\ fields[i].kind = "File"
          /\ fields[i].file.reader.data = <<>>
          /\ fields' = [fields EXCEPT ![i].file.reader.data = <<"+">>]
    /\ UNCHANGED << rnd, calls, boundary, method, reqState, headers, out, pc,
                    idx, reader, wrRes, result, wlog, hlog, finalized >>

\* ------------------------------------------------------------------- writes
LogEntry(op, part, at, len, err) ==
    [op |-> op, part |-> part, at |-> at, len |-> len, err |-> err]

\* variant: the result of the write is not looked at
Write_unchecked(op, part, ps, okpc) ==
    \/ /\ out' = out \o Flat(ps)
       /\ wlog' = Append(wlog, LogEntry(op, part, Len(out), Len(Flat(ps)), ""))
       /\ wrRes' = wrRes
       /\ pc' = okpc
    \/ \E k \in 0..(Len(ps) - 1), e \in IoErrors :
          /\ out' = out \o Cat(ps, k)
          /\ wlog' = Append(wlog, LogEntry(op, part, Len(out), Len(Cat(ps, k)), e))
          /\ wrRes' = wrRes
          /\ pc' = okpc

\* try!(write!(req, ...)): the pieces go to the stream one after the other;
\* the first piece the stream refuses ends write_request with that error
Write(op, part, ps, okpc) ==
    \/ /\ out' = out \o Flat(ps)
       /\ wlog' = Append(wlog, LogEntry(op, part, Len(out), Len(Flat(ps)), ""))
       /\ wrRes' = wrRes
       /\ pc' = okpc
    \/ \E k \in 0..(Len(ps) - 1), e \in IoErrors :
          /\ out' = out \o Cat(ps, k)
          /\ wlog' = Append(wlog, LogEntry(op, part, Len(out), Len(Cat(ps, k)), e))
          /\ wrRes' = IoErr(e)
          /\ pc' = "send_try"

\* --------------------------------------------------------------------- send
\* variant: the method is not checked
send_assert_unchecked ==
    /\ pc = "build"
    /\ pc' = "apply_headers"
    /\ UNCHANGED << rnd, calls, fields, boundary, method, reqState, headers, out,
                    idx, reader, wrRes, result, wlog, hlog, finalized >>

\* assert!(req.method() == method::Post, ...)
send_assert ==
    /\ pc = "build"
    /\ IF method = "Post"
       THEN /\ pc' = "apply_headers"
            /\ result' = result
       ELSE /\ pc' = "done"
            /\ result' = Panic
    /\ UNCHANGED << rnd, calls, fields, boundary, method, reqState, headers, out, idx,
                    reader, wrRes, wlog, hlog, finalized >>

apply_headers ==
    /\ pc = "apply_headers"
    /\ headers' = [set |-> TRUE, mime |-> multipart_mime(boundary)]
    /\ hlog' = Append(hlog, [state |-> reqState, written |-> Len(wlog)])
    /\ pc' = "start"
    /\ UNCHANGED << rnd, calls, fields, boundary, method, reqState, out, idx,
                    reader, wrRes, result, wlog, finalized >>

\* variant: a failed start takes the Content-Type header back off
req_start_rollback ==
    /\ pc = "start"
    /\ \/ /\ reqState' = "Streaming"
          /\ pc' = "wr_first_boundary"
          /\ UNCHANGED << result, headers >>
       \/ \E e \in IoErrors :
          /\ reqState' = "Failed"
          /\ pc' = "done"
          /\ result' = HttpErr("HttpIoError", e)
          /\ headers' = [set |-> FALSE, mime |-> NoMime]
    /\ UNCHANGED << rnd, calls, fields, boundary, method, out, idx,
                    reader, wrRes, wlog, hlog, finalized >>

\* let mut req = try!(req.start());
req_start ==
    /\ pc = "start"
    /\ \/ /\ reqState' = "Streaming"
          /\ pc' = "wr_first_boundary"
          /\ result' = result
       \/ \E e \in IoErrors :
          /\ reqState' = "Failed"
          /\ pc' = "done"
          /\ result' = HttpErr("HttpIoError", e)
    /\ UNCHANGED << rnd, calls, fields, boundary, method, headers, out, idx,
                    reader, wrRes, wlog, hlog, finalized >>

\* variant: no boundary line before the loop
write_first_boundary_skipped ==
    /\ pc = "wr_first_boundary"
    /\ pc' = "wr_loop"
    /\ UNCHANGED << rnd, calls, fields, boundary, method, reqState, headers, out,
                    idx, reader, wrRes, result, wlog, hlog, finalized >>

\* write_request: try!(write_boundary(req, boundary[])) before the loop
write_first_boundary ==
    /\ pc = "wr_first_boundary"
    /\ Write("boundary", 0, BoundaryPieces(boundary), "wr_loop")
    /\ UNCHANGED << rnd, calls, fields, boundary, method, reqState, headers, idx,
                    reader, result, hlog, finalized >>

\* the loop takes the next field and writes its Content-Disposition
write_disposition ==
    /\ pc = "wr_loop"
    /\ idx <= Len(fields)
    /\ Write("disposition", idx, DispositionPieces(fields[idx].name), "wr_field")
    /\ UNCHANGED << rnd, calls, fields, boundary, method, reqState, headers, idx,
                    reader, result, hlog, finalized >>

\* write_line: req.write_str(s) ...
write_line_str ==
    /\ pc = "wr_field"
    /\ fields[idx].kind = "Text"
    /\ Write("text", idx, << fields[idx].text >>, "text_crlf")
    /\ UNCHANGED << rnd, calls, fields, boundary, method, reqState, headers, idx,
                    reader, result, hlog, finalized >>

\* ... .and_then(|_| req.write(b"\r\n"))
write_line_crlf ==
    /\ pc = "text_crlf"
    /\ Write("crlf", idx, << CRLF >>, "wr_boundary")
    /\ UNCHANGED << rnd, calls, fields, boundary, method, reqState, headers, idx,
                    reader, result, hlog, finalized >>

\* write_file: the filename, if one was captured
write_file_filename ==
    /\ pc = "wr_field"
    /\ fields[idx].kind = "File"
    /\ reader' = fields[idx].file.reader
    /\ IF fields[idx].file.filename.some
       THEN Write("filename", idx, FilenamePieces(fields[idx].file.filename.val),
                  "file_ctype")
       ELSE /\ pc' = "file_ctype"
            /\ UNCHANGED << out, wlog, wrRes >>
    /\ UNCHANGED << rnd, calls, fields, boundary, method, reqState, headers, idx,
                    result, hlog, finalized >>

write_file_content_type ==
    /\ pc = "file_ctype"
    /\ Write("ctype", idx, ContentTypePieces(fields[idx].file.content_type),
             "file_copy")
    /\ UNCHANGED << rnd, calls, fields, boundary, method, reqState, headers, idx,
                    reader, result, hlog, finalized >>

\* variant: a CRLF is written after the last byte of the file
copy_trailing_crlf ==
    /\ pc = "file_copy"
    /\ \/ /\ reader.pos >= Len(reader.data)
          /\ reader' = reader
          /\ Write("crlf", idx, << CRLF >>, "wr_boundary")
       \/ /\ reader.pos < Len(reader.data)
          /\ \E n \in 1..MaxChunk :
                /\ reader.pos + n <= Len(reader.data)
                /\ reader' = [reader EXCEPT !.pos = @ + n]
                /\ Write("copy", idx, << Slice(reader.data, reader.pos, n) >>,
                         "file_copy")
    /\ UNCHANGED << rnd, calls, fields, boundary, method, reqState, headers, idx,
                    result, hlog, finalized >>

\* io::util::copy: read a chunk, write it, until the reader is at its end
copy ==
    /\ pc = "file_copy"
    /\ \/ /\ reader.pos >= Len(reader.data)
          /\ pc' = "wr_boundary"
          /\ UNCHANGED << reader, out, wlog, wrRes >>
       \/ /\ reader.pos < Len(reader.data)
          /\ \E n \in 1..MaxChunk :
                /\ reader.pos + n <= Len(reader.data)
                /\ reader' = [reader EXCEPT !.pos = @ + n]
                /\ Write("copy", idx, << Slice(reader.data, reader.pos, n) >>,
                         "file_copy")
       \/ \E e \in IoErrors :
          /\ wlog' = Append(wlog, LogEntry("read", idx, Len(out), 0, e))
          /\ wrRes' = IoErr(e)
          /\ pc' = "send_try"
          /\ UNCHANGED << reader, out >>
    /\ UNCHANGED << rnd, calls, fields, boundary, method, reqState, headers, idx,
                    result, hlog, finalized >>

\* variant: the line after the last part is the terminator --<boundary>--
write_part_boundary_terminator ==
    /\ pc = "wr_boundary"
    /\ Write("boundary", idx,
             IF idx = Len(fields)
             THEN << DASHES, boundary, DASHES, CRLF >>
             ELSE BoundaryPieces(boundary),
             "wr_loop")
    /\ idx' = IF pc' = "wr_loop" THEN idx + 1 ELSE idx
    /\ UNCHANGED << rnd, calls, fields, boundary, method, reqState, headers,
                    reader, result, hlog, finalized >>

\* try!(write_boundary(req, boundary[])) at the end of the loop body
write_part_boundary ==
    /\ pc = "wr_boundary"
    /\ Write("boundary", idx, BoundaryPieces(boundary), "wr_loop")
    /\ idx' = IF pc' = "wr_loop" THEN idx + 1 ELSE idx
    /\ UNCHANGED << rnd, calls, fields, boundary, method, reqState, headers,
                    reader, result, hlog, finalized >>

\* variant: a closing boundary line of its own after the loop
write_request_ok_closing ==
    /\ pc = "wr_loop"
    /\ idx > Len(fields)
    /\ out' = out \o Flat(BoundaryPieces(boundary))
    /\ wlog' = Append(wlog, LogEntry("boundary", idx, Len(out),
                                     Len(Flat(BoundaryPieces(boundary))), ""))
    /\ wrRes' = IoOk
    /\ pc' = "send_try"
    /\ UNCHANGED << rnd, calls, fields, boundary, method, reqState, headers, idx,
                    reader, result, hlog, finalized >>

\* the loop is over: Ok(())
write_request_ok ==
    /\ pc = "wr_loop"
    /\ idx > Len(fields)
    /\ wrRes' = IoOk
    /\ pc' = "send_try"
    /\ UNCHANGED << rnd, calls, fields, boundary, method, reqState, headers, out, idx,
                    reader, result, wlog, hlog, finalized >>

\* variant: the error is recorded but send goes on to req.send()
send_try_falls_through ==
    /\ pc = "send_try"
    /\ LET r == io_to_http(wrRes) IN
       IF r.tag = "Err"
       THEN /\ result' = r
            /\ reqState' = "Failed"
            /\ pc' = "req_send"
       ELSE /\ pc' = "req_send"
            /\ UNCHANGED << result, reqState >>
    /\ UNCHANGED << rnd, calls, fields, boundary, method, headers, out, idx,
                    reader, wrRes, wlog, hlog, finalized >>

\* try!(io_to_http(self.write_request(&mut req)))
send_try ==
    /\ pc = "send_try"
    /\ LET r == io_to_http(wrRes) IN
       IF r.tag = "Err"
       THEN /\ result' = r
            /\ reqState' = "Failed"
            /\ pc' = "done"
       ELSE /\ pc' = "req_send"
            /\ UNCHANGED << result, reqState >>
    /\ UNCHANGED << rnd, calls, fields, boundary, method, headers, out, idx,
                    reader, wrRes, wlog, hlog, finalized >>

\* req.send()
req_send ==
    /\ pc = "req_send"
    /\ finalized' = finalized + 1
    /\ pc' = "done"
    /\ \/ /\ reqState' = "Sent"
          /\ result' = HttpOk
       \/ \E e \in IoErrors :
          /\ reqState' = "Failed"
          /\ result' = HttpErr("HttpIoError", e)
    /\ UNCHANGED << rnd, calls, fields, boundary, method, headers, out, idx,
                    reader, wrRes, wlog, hlog >>

SendStep ==
    \/ send_assert
    \/ apply_headers
    \/ req_start
    \/ write_first_boundary
    \/ write_disposition
    \/ write_line_str
    \/ write_line_crlf
    \/ write_file_filename
    \/ write_file_content_type
    \/ copy
    \/ write_part_boundary
    \/ write_request_ok
    \/ send_try
    \/ req_send

Next ==
    \/ add_text
    \/ add_file
    \/ file_appended
    \/ SendStep

Spec == Init /\ [][Next]_vars

\* the collection of one of the streams: the steps of send do not depend on
\* the characters of the boundary
FairInit == Init /\ rnd = <<"a","B","3","d","E","6","g","H","9","j">>

\* send runs to its end once called: the code is sequential and every call
\* it makes returns
FairSpec == FairInit /\ [][Next]_vars /\ WF_vars(SendStep)

\* ------------------------------------------------- boundary generation
\* characters the generator may yield, from both ends of its ranges
RandChars == {"A", "Z", "m", "0"}

\* before Multipart::new: any stream of one character more than new takes
RandInit ==
    /\ rnd \in [1..(BOUNDARY_LEN + 1) -> RandChars]
    /\ fields = <<>>
    /\ boundary = <<>>
    /\ method = "Post"
    /\ reqState = "Fresh"
    /\ headers = [set |-> FALSE, mime |-> NoMime]
    /\ out = <<>>
    /\ pc = "new"
    /\ idx = 1
    /\ reader = NoReader
    /\ wrRes = WrNone
    /\ result = ResNone
    /\ wlog = <<>>
    /\ hlog = <<>>
    /\ finalized = 0
    /\ calls = <<>>

\* Multipart::new
new ==
    /\ pc = "new"
    /\ boundary' = random_alphanumeric(rnd, BOUNDARY_LEN)
    /\ pc' = "build"
    /\ UNCHANGED << rnd, calls, fields, method, reqState, headers, out, idx,
                    reader, wrRes, result, wlog, hlog, finalized >>

RandSpec == RandInit /\ [][new]_vars

\* ------------------------------------------------------- reading the log
Entries(op, part) ==
    { j \in 1..Len(wlog) : wlog[j].op = op /\ wlog[j].part = part }

\* the write op of part went through whole
Done(op, part) == \E j \in Entries(op, part) : wlog[j].err = ""

The(op, part) == wlog[CHOOSE j \in Entries(op, part) : TRUE]

End(e) == e.at + e.len

Written(e) == Slice(out, e.at, e.len)

OpCount(op) == Cardinality({ j \in 1..Len(wlog) : wlog[j].op = op /\ wlog[j].err = "" })

\* the token the Content-Type header declares
HeaderBoundary == headers.mime.params[1][2]

RECURSIVE Copied(_, _)
\* the bytes the first k log entries copied from the file of part
Copied(part, k) ==
    IF k = 0 THEN <<>>
    ELSE Copied(part, k - 1) \o
         (IF wlog[k].op = "copy" /\ wlog[k].part = part THEN Written(wlog[k]) ELSE <<>>)

\* the bytes the reader of part i has left when send gets to it
Remaining(i) ==
    SubSeq(fields[i].file.reader.data, fields[i].file.reader.pos + 1,
           Len(fields[i].file.reader.data))

\* ------------------------------------------------------------------- claims

\* C1 (as stated): for a File field with filename F and content type T, the
\* bytes between the part's boundary line and the file content are
\* Content-Disposition: form-data; name="<name>"; filename="F" CRLF
\* Content-Type: T CRLF CRLF, the filename fragment on the disposition line.
C1_FilenameOnDispositionLine ==
    \A i \in 1..Len(fields) :
        (/\ fields[i].kind = "File"
         /\ fields[i].file.filename.some
         /\ Done("boundary", i - 1)
         /\ Done("ctype", i))
        => LET b == The("boundary", i - 1)
               c == The("ctype", i)
           IN Slice(out, End(b), End(c) - End(b))
                = DISPOSITION_PREFIX \o fields[i].name \o QUOTE
                    \o FILENAME_PREFIX \o fields[i].file.filename.val \o QUOTE \o CRLF
                    \o CTYPE_PREFIX \o MimeFmt(fields[i].file.content_type) \o CRLF
                    \o CRLF

\* C2: a send in which no write fails writes exactly N parts and N + 1
\* boundary lines, one right before each part and one closing line after
\* the last part, N being the number of add calls.
C2_PartAndBoundaryCount ==
    (wrRes.tag = "Ok") =>
        /\ OpCount("disposition") = Len(calls)
        /\ OpCount("boundary") = Len(calls) + 1
        /\ \A i \in 1..Len(calls) :
              /\ Cardinality(Entries("disposition", i)) = 1
              /\ Cardinality(Entries("boundary", i - 1)) = 1
              /\ End(The("boundary", i - 1)) = The("disposition", i).at
        /\ Cardinality(Entries("boundary", Len(calls))) = 1
        /\ wlog[Len(wlog)] = The("boundary", Len(calls))
        /\ End(wlog[Len(wlog)]) = Len(out)

C2_Witness ==
    /\ wrRes.tag = "Ok"
    /\ Len(calls) = 2
    /\ calls[1].name = calls[2].name

\* C3: the i-th part written carries the name and the value of the i-th
\* field added, and parts are written in the order of the add calls.
C3_InsertionOrder ==
    /\ \A j \in 1..Len(wlog) :
          /\ wlog[j].part <= Len(calls)
          /\ j > 1 => wlog[j - 1].part <= wlog[j].part
    /\ \A i \in 1..Len(calls) :
          /\ Done("disposition", i) =>
                Written(The("disposition", i))
                  = DISPOSITION_PREFIX \o calls[i].name \o QUOTE \o CRLF \o CRLF
          /\ Done("text", i) =>
                /\ calls[i].op = "add_text"
                /\ Written(The("text", i)) = calls[i].val
          /\ Done("boundary", i) =>
                /\ Done("disposition", i)
                /\ calls[i].op = "add_text" => Done("text", i)
                /\ calls[i].op = "add_file" =>
                      /\ fields[i].file.filename = filename_str(calls[i].file.path)
                      /\ fields[i].file.reader.pos = calls[i].file.pos
                      /\ Copied(i, Len(wlog)) = Remaining(i)
    /\ (wrRes.tag = "Ok") => \A i \in 1..Len(calls) : Done("boundary", i)

C3_Witness ==
    /\ wrRes.tag = "Ok"
    /\ Len(calls) = 2
    /\ calls[1].op = "add_file"
    /\ calls[2].op = "add_text"
    /\ calls[1].name # calls[2].name
    /\ calls[2].val # <<>>

\* C4: the boundary in the Content-Type header is the token of every
\* delimiter line written, and both are the boundary generated at creation.
C4_BoundaryAgrees ==
    /\ headers.set =>
          /\ HeaderBoundary = random_alphanumeric(rnd, BOUNDARY_LEN)
          /\ MimeFmt(headers.mime)
               = <<"m","u","l","t","i","p","a","r","t","/","f","o","r","m","-","d","a","t","a",";"," ","b","o","u","n","d","a","r","y","=">>
                   \o HeaderBoundary
    /\ \A j \in 1..Len(wlog) :
          (wlog[j].op = "boundary" /\ wlog[j].err = "") =>
              /\ headers.set
              /\ Written(wlog[j]) = DASHES \o HeaderBoundary \o CRLF

C4_Witness ==
    /\ headers.set
    /\ OpCount("boundary") = 3

\* C5: a Text field n = V is written as Content-Disposition: form-data;
\* name="n" CRLF, a blank line, V and one CRLF, with no Content-Type line.
C5_TextPart ==
    \A i \in 1..Len(fields) :
        (fields[i].kind = "Text" /\ Done("crlf", i)) =>
            LET d == The("disposition", i)
                c == The("crlf", i)
            IN /\ Slice(out, d.at, End(c) - d.at)
                    = DISPOSITION_PREFIX \o calls[i].name \o QUOTE \o CRLF
                        \o CRLF
                        \o calls[i].val
                        \o CRLF
               /\ Entries("ctype", i) = {}
               /\ Entries("filename", i) = {}
               /\ Done("boundary", i) => The("boundary", i).at = End(c)

C5_Witness ==
    \E i \in 1..Len(fields) :
        /\ fields[i].kind = "Text"
        /\ fields[i].text # <<>>
        /\ Done("boundary", i)

\* C6 (as stated): a File field without a filename is written with no
\* filename fragment, and its Content-Type line is a header of the part: it
\* comes directly after the Content-Disposition line, before the blank line.
C6_ContentTypeAfterDisposition ==
    \A i \in 1..Len(fields) :
        (/\ fields[i].kind = "File"
         /\ ~fields[i].file.filename.some
         /\ Done("ctype", i))
        => LET d == The("disposition", i)
               line == DISPOSITION_PREFIX \o fields[i].name \o QUOTE \o CRLF
                         \o CTYPE_PREFIX \o MimeFmt(fields[i].file.content_type)
                         \o CRLF
           IN /\ Entries("filename", i) = {}
              /\ Slice(out, d.at, Len(line)) = line

\* C7: once a write (or the copy's read) fails, nothing more is written,
\* req.send is not called, and send returns HttpIoError of that error.
C7_FirstFailureAborts ==
    \A j \in 1..Len(wlog) :
        (wlog[j].err # "") =>
            /\ j = Len(wlog)
            /\ Len(out) = End(wlog[j])
            /\ finalized = 0
            /\ reqState # "Sent"
            /\ pc \in {"send_try", "done"}
            /\ wrRes = IoErr(wlog[j].err)
            /\ (pc = "done") =>
                  /\ result = HttpErr("HttpIoError", wlog[j].err)
                  /\ reqState = "Failed"

C7_Witness ==
    /\ pc = "done"
    /\ Len(wlog) > 0
    /\ wlog[Len(wlog)].err # ""
    /\ wlog[Len(wlog)].op = "disposition"
    /\ wlog[Len(wlog)].part = 1
    /\ Len(fields) = 2

\* C8: send on a request whose method is not POST panics with nothing
\* written, no header set and the request still Fresh.
C8_NonPostPanics ==
    (method # "Post") =>
        /\ out = <<>>
        /\ wlog = <<>>
        /\ ~headers.set
        /\ hlog = <<>>
        /\ reqState = "Fresh"
        /\ finalized = 0
        /\ pc \in {"build", "done"}
        /\ (pc = "done") => result = Panic

C8_Witness ==
    /\ method # "Post"
    /\ pc = "done"
    /\ result = Panic
    /\ Len(fields) > 0

\* C9: the request only moves Fresh -> Streaming -> Sent | Failed (Failed
\* also from Fresh when start fails), never back; no step is taken once it
\* is Sent or Failed; and a send past the POST check ends Sent or Failed.
C9_StateMachine ==
    /\ [][ /\ reqState \notin {"Sent", "Failed"}
           /\ \/ reqState' = reqState
              \/ reqState = "Fresh" /\ reqState' \in {"Streaming", "Failed"}
              \/ reqState = "Streaming" /\ reqState' \in {"Sent", "Failed"}
           /\ reqState' = "Streaming" /\ reqState = "Fresh" => headers.set
         ]_vars
    /\ (pc = "apply_headers") ~> (reqState \in {"Sent", "Failed"})

C9_Witness ==
    /\ reqState = "Failed"
    /\ pc = "done"
    /\ OpCount("boundary") = 2

\* C10: a send of no field at all is accepted, and when no write fails the
\* body is the one line --<boundary> CRLF.
C10_EmptyCollection ==
    (Len(calls) = 0 /\ wrRes.tag = "Ok") =>
        /\ out = DASHES \o random_alphanumeric(rnd, BOUNDARY_LEN) \o CRLF
        /\ Len(wlog) = 1
        /\ (pc = "done") => (finalized = 1 /\ reqState \in {"Sent", "Failed"})
        /\ (pc = "done" /\ reqState = "Failed") => result.tag = "Err"
        /\ (pc = "done" /\ reqState = "Sent") => result = HttpOk

C10_Witness ==
    /\ Len(calls) = 0
    /\ pc = "done"
    /\ reqState = "Sent"
    /\ result = HttpOk

\* C11: nothing is written between the last byte copied from a file and the
\* -- of the next boundary line, whatever the length of the file.
C11_NoCrlfAfterFile ==
    \A i \in 1..Len(fields) :
        (fields[i].kind = "File" /\ Done("boundary", i)) =>
            LET c == The("ctype", i)
                b == The("boundary", i)
            IN /\ b.at = End(c) + Len(Remaining(i))
               /\ Slice(out, End(c), b.at - End(c)) = Remaining(i)
               /\ Copied(i, Len(wlog)) = Remaining(i)
               /\ Slice(out, b.at, 2) = DASHES

C11_Witness ==
    /\ Len(fields) = 2
    /\ fields[1].kind = "File"
    /\ fields[2].kind = "File"
    /\ Remaining(1) = <<>>
    /\ Len(Remaining(2)) > 1
    /\ Done("boundary", 2)

\* C12: a successful send ends with --<boundary> CRLF: the closing line is
\* the same bytes as every other delimiter line, never --<boundary>--.
C12_ClosingLikeInterior ==
    /\ (wrRes.tag = "Ok") =>
          /\ Len(out) >= BOUNDARY_LEN + 4
          /\ Slice(out, Len(out) - (BOUNDARY_LEN + 4), BOUNDARY_LEN + 4)
               = DASHES \o boundary \o CRLF
          /\ wlog[Len(wlog)].op = "boundary"
          /\ \A j \in 1..Len(wlog) :
                wlog[j].op = "boundary" =>
                    Written(wlog[j]) = Written(wlog[Len(wlog)])
    /\ \A j \in 1..Len(wlog) :
          (wlog[j].op = "boundary" /\ wlog[j].err = "") =>
              /\ wlog[j].len = BOUNDARY_LEN + 4
              /\ Written(wlog[j]) # DASHES \o boundary \o DASHES

C12_Witness ==
    /\ pc = "done"
    /\ reqState = "Sent"
    /\ Len(fields) = 2
    /\ OpCount("boundary") = 3

\* offset p of the body is the start of a line
LineStart(p) == p = 0 \/ (p >= 2 /\ out[p - 1] = "\r" /\ out[p] = "\n")

\* C13 (as stated): whatever the caller adds, --<boundary> is at the start
\* of a line of the body only where the encoder wrote a delimiter line.
C13_BoundaryOnlyInDelimiters ==
    \A p \in 0..(Len(out) - (BOUNDARY_LEN + 2)) :
        (LineStart(p) /\ Slice(out, p, BOUNDARY_LEN + 2) = DASHES \o boundary)
        => \E j \in 1..Len(wlog) : wlog[j].op = "boundary" /\ wlog[j].at = p

\* C14: add_text and add_file always succeed, each appends one field at
\* the end and leaves the earlier fields and the boundary as they were, so
\* the boundary at send time is the one new() chose.
C14_AddAppendsOnly ==
    /\ [][ (calls' # calls) =>
             /\ Len(calls') = Len(calls) + 1
             /\ Len(fields') = Len(fields) + 1
             /\ SubSeq(fields', 1, Len(fields)) = fields
             /\ fields'[Len(fields')].name = calls'[Len(calls')].name
             /\ (calls'[Len(calls')].op = "add_text") =>
                   /\ fields'[Len(fields')].kind = "Text"
                   /\ fields'[Len(fields')].text = calls'[Len(calls')].val
             /\ (calls'[Len(calls')].op = "add_file") =>
                   fields'[Len(fields')].kind = "File"
             /\ boundary' = boundary
             /\ pc' = "build"
         ]_vars
    /\ [](/\ boundary = random_alphanumeric(rnd, BOUNDARY_LEN)
          /\ Len(fields) = Len(calls)
          /\ (pc = "build" /\ Len(fields) < MaxFields) =>
                (ENABLED add_text /\ ENABLED add_file))

C14_Witness ==
    /\ pc = "done"
    /\ reqState = "Sent"
    /\ Len(calls) = 2
    /\ calls[1].op = "add_file"
    /\ calls[2].op = "add_file"
    /\ calls[1].name = calls[2].name
    /\ calls[1].file # calls[2].file

AlphaNum ==
    { LOWER[k] : k \in 1..Len(LOWER) } \cup { DIGITS[k] : k \in 1..Len(DIGITS) }

\* C15: the boundary of a collection is 8 characters, each a lowercase
\* letter or a digit, whatever the random source yields.
C15_BoundaryAlphabet ==
    (pc # "new") =>
        /\ Len(boundary) = 8
        /\ \A i \in 1..Len(boundary) : boundary[i] \in AlphaNum

C15_Witness ==
    /\ pc = "build"
    /\ rnd[1] = "A"
    /\ rnd[2] = "Z"
    /\ rnd[3] = "0"
    /\ rnd[4] = "m"
    /\ boundary[1] = "a"
    /\ boundary[2] = "z"

\* C16: send sets the Content-Type header once, on the Fresh request,
\* before start and before any body byte; the header is not touched after
\* that, also not when start or a write fails.
C16_HeaderSetOnceWhileFresh ==
    /\ [](/\ Len(hlog) <= 1
          /\ \A k \in 1..Len(hlog) : hlog[k].state = "Fresh" /\ hlog[k].written = 0
          /\ headers.set <=> Len(hlog) = 1
          /\ (reqState # "Fresh" \/ wlog # <<>> \/ finalized > 0) =>
                /\ headers.set
                /\ HeaderBoundary = boundary
          /\ (pc = "done" /\ method = "Post") => Len(hlog) = 1)
    /\ [][ (headers' # headers) =>
             /\ reqState = "Fresh"
             /\ reqState' = "Fresh"
             /\ out = <<>>
             /\ out' = <<>>
             /\ ~headers.set
             /\ Len(hlog') = Len(hlog) + 1
         ]_vars

C16_Witness ==
    /\ pc = "done"
    /\ reqState = "Failed"
    /\ wlog = <<>>
    /\ headers.set
    /\ result.tag = "Err"

\* C17: add_file reads nothing; the reader is read only by the copy of
\* its own part during send, so the part holds what the reader yields then,
\* from its position to the end, not what the file held at add_file.
C17_LazyFileRead ==
    /\ [][ (calls' # calls /\ calls'[Len(calls')].op = "add_file") =>
             /\ fields'[Len(fields')].file.reader.data = calls'[Len(calls')].file.data
             /\ fields'[Len(fields')].file.reader.pos = calls'[Len(calls')].file.pos
             /\ reader' = reader
             /\ out' = out
         ]_vars
    /\ [][ (reader' # reader) =>
             \/ /\ pc = "wr_field"
                /\ reader' = fields[idx].file.reader
             \/ /\ pc = "file_copy"
                /\ reqState = "Streaming"
                /\ fields[idx].kind = "File"
                /\ reader.data = fields[idx].file.reader.data
                /\ reader'.data = reader.data
                /\ reader'.pos > reader.pos
         ]_vars
    /\ [](\A i \in 1..Len(fields) :
             (fields[i].kind = "File" /\ Done("boundary", i)) =>
                 /\ Copied(i, Len(wlog)) = Remaining(i)
                 /\ Slice(out, End(The("ctype", i)), Len(Remaining(i))) = Remaining(i))

C17_Witness ==
    \E i \in 1..Len(fields) :
        /\ fields[i].kind = "File"
        /\ Done("boundary", i)
        /\ calls[i].file.data = <<>>
        /\ Copied(i, Len(wlog)) = <<"+">>

\* C18: req.send() is called at most once, and only when every part and
\* the closing boundary line were written without error; when req.start()
\* fails no body byte is written and the request is not finalized.
C18_FinalizedOnceAfterBody ==
    /\ [](/\ finalized <= 1
          /\ (finalized = 1) =>
                /\ wrRes = IoOk
                /\ \A j \in 1..Len(wlog) : wlog[j].err = ""
                /\ \A i \in 0..Len(fields) : Done("boundary", i)
                /\ \A i \in 1..Len(fields) : Done("disposition", i)
                /\ wlog[Len(wlog)].op = "boundary"
                /\ wlog[Len(wlog)].part = Len(fields)
                /\ End(wlog[Len(wlog)]) = Len(out)
          /\ (pc = "done" /\ method = "Post" /\ wrRes = WrNone) =>
                /\ reqState = "Failed"
                /\ result.tag = "Err"
                /\ out = <<>>
                /\ wlog = <<>>
                /\ finalized = 0)
    /\ [][ (finalized' # finalized) =>
             /\ finalized = 0
             /\ finalized' = 1
             /\ reqState = "Streaming"
             /\ out' = out
         ]_vars

C18_Witness ==
    /\ finalized = 1
    /\ pc = "done"
    /\ Len(fields) = 2
    /\ fields[1].kind = "File"
    /\ fields[2].kind = "Text"

====
